---- MODULE Spec2Model ----
(***************************************************************************)
(* 8-ball pool (src/main.py, src/functions.py): the match state machine of *)
(* the main loop -- strike, drag, pocket capture, instant kind assignment  *)
(* and scoring, foul respawn, shot resolution, game over and match reset.  *)
(*                                                                         *)
(* Abstraction of the floating-point ball state:                           *)
(*   vel : 0 = zero velocity, 1 = 0 < speed <= 0.2 (below the motion       *)
(*         threshold of main.py:190 but still displacing the ball),        *)
(*         2 = speed > 0.2 ("moving");                                     *)
(*   at  : "pocket" when the centre is within POCKET_RADIUS of a pocket    *)
(*         centre, "table" otherwise.                                      *)
(* winner_name holds the entered name of a player; the two names are taken *)
(* to be distinct (PlayerNames).  ticks_since_over stands for              *)
(* pygame.time.get_ticks() - game_over_time.                               *)
(* The frame logic is modelled with apply_physics and check_all_collisions *)
(* as functions.py defines them.  main.py:153 and main.py:241 pass one     *)
(* argument more than these definitions take (GRAVITY, dt_multiplier); the *)
(* calls are modelled as calls with the parameters of the definitions, so  *)
(* the rules of the frame are those the loop would apply (Spec and        *)
(* SpecMatch).  The frame with the calls as they are written is            *)
(* SpecAsWritten; the collision sub-steps of a pair of balls, on a grid    *)
(* of exact positions and velocities, are SpecContact.  SpecRoll is the    *)
(* frame with speeds in hundredths of a pixel per frame, SpecPockets one   *)
(* call of the pocket detector on positions in pixels, SpecNeighbors the   *)
(* neighbour lists of the ball objects from frame to frame.                *)
(***************************************************************************)
EXTENDS Integers, Sequences, FiniteSets, TLC

VARIABLES balls, player_ball_types, player_scores, current_player_idx,
          game_started, game_over, ticks_since_over, winner_name,
          shot_taken, charging_shot, balls_sunk_in_shot, sunk_this_frame,
          frame_error, contact, roll, pot, nb

\* frame_error: a frame of the main loop raised an exception (the loop has no
\* handler, so the process ends with it)
\* contact: two balls in the collision sub-steps of one frame, on a grid of
\* positions and velocities (see the collision resolver below)
\* roll: the speed of every ball, by number, in hundredths of a pixel per
\* frame (see the rolling frame below)
\* pot: a list of balls with positions in pixels before and after one call of
\* the pocket detector, and what the call returned
\* nb: the ball objects by address with their neighbour lists, the live list,
\* and the resolver calls of one sub-step of the last frame
aux == <<frame_error, contact, roll, pot, nb>>

vars == <<balls, player_ball_types, player_scores, current_player_idx,
          game_started, game_over, ticks_since_over, winner_name,
          shot_taken, charging_shot, balls_sunk_in_shot, sunk_this_frame,
          frame_error, contact, roll, pot, nb>>

(* ---------------- bounds of the model ---------------- *)

\* collisions keep at most this many object balls in motion at the same time
MaxMoving == 1
\* the capture buffer holds at most this many entries
MaxBuffer == 2
\* at most this many object balls are off the table at the same time
MaxPotted == 1
\* milliseconds returned by one clock.tick in the model
TickMs == 3000
\* the bounds of the long match (MatchEnv): the entries of the capture buffer
\* and the highest ball number the physics moves (the solids, the 8-ball and
\* one stripe)
MatchBuffer == 2
MatchRolls == 9
\* the highest number of a ball the pointer grabs in the loop as written
MaxGrab == 1
\* the velocity components of the two balls in contact, in pixels per frame,
\* range over -MaxSpeed..MaxSpeed
MaxSpeed == 1
\* a strike gives the cue ball one of the speeds 0, 0.1, ..., MaxPower / 10
\* pixels per frame
MaxPower == 3
\* dt_multiplier ranges over 1..MaxDt
MaxDt == 2
\* balls on the table when the neighbour lists are examined
MaxBalls == 3

(* ---------------- program constants ---------------- *)

DisplayDelay == 4000

PlayerNames == [p \in 0..1 |-> IF p = 0 THEN "P1" ELSE "P2"]

rack_numbers == <<1, 9, 2, 10, 8, 3, 4, 11, 12, 5, 13, 14, 6, 15, 7>>

(* ---------------- helpers ---------------- *)

Numbers(bs) == {bs[i].number : i \in DOMAIN bs}

OfType(bs, t) == {i \in DOMAIN bs : bs[i].type = t}

Min2(a, b) == IF a < b THEN a ELSE b

\* functions.py create_ball: the kind is derived from the number; a new ball
\* is at rest, not dragged
BallType(number) ==
    IF number = 0 THEN "cue"
    ELSE IF number = 8 THEN "8ball"
    ELSE IF number < 8 THEN "solid"
    ELSE "stripe"

create_ball(pos, number) ==
    [number |-> number, type |-> BallType(number), dragging |-> FALSE,
     vel |-> 0, at |-> pos]

\* main.py setup_rack: the cue ball first, then the triangle in rack order;
\* every rack position lies outside the capture radius of every pocket
setup_rack ==
    <<create_ball("table", 0)>> \o
    [i \in 1..Len(rack_numbers) |-> create_ball("table", rack_numbers[i])]

\* main.py:118/149/190 (functions.py are_balls_moving): some speed > 0.2
are_balls_moving(bs) == \E i \in DOMAIN bs : bs[i].vel = 2

\* main.py:80
HasCueBall(bs) == Len(bs) > 0 /\ bs[1].number = 0

\* The environment of a specification, E: the balls the physics and the
\* pointer may set in motion, and the sizes it keeps the match within.
\*   rolls  : the numbers of the object balls the physics moves
\*   grab   : the numbers of the balls the pointer grabs
\*   moving : object balls in motion at the same time
\*   buffer : entries of the capture buffer
\*   potted : object balls off the table
PlayEnv ==
    [rolls |-> 1..Len(rack_numbers), grab |-> {0}, moving |-> MaxMoving,
     buffer |-> MaxBuffer, potted |-> MaxPotted]

MatchEnv ==
    [rolls |-> 1..MatchRolls, grab |-> {}, moving |-> 1,
     buffer |-> MatchBuffer, potted |-> Len(rack_numbers)]

\* The balls the physics sets in motion: the cue ball, the 8-ball and, of
\* each kind, the lowest-numbered live ball (balls of one kind are
\* interchangeable for the rules).
Movable(bs, E) ==
    LET live == Numbers(bs)
    IN {n \in live :
           \/ n = 0
           \/ /\ n \in E.rolls
              /\ \A m \in live : BallType(m) = BallType(n) => n <= m}

NumMoving(bs) ==
    Cardinality({i \in DOMAIN bs :
                    bs[i].number # 0 /\ bs[i].vel > 0 /\ ~bs[i].dragging})

(* ---------------- functions.py: physics ---------------- *)

\* update_inertia + apply_physics for one ball.  A dragged ball takes the
\* displacement since the previous frame as its velocity (none, or more than
\* 0.2) and is not integrated; any other ball is displaced by its velocity
\* (and may so enter or leave the capture radius of a pocket), then friction
\* shrinks the speed and a speed below 0.1 is snapped to zero.
apply_physics(ball) ==
    IF ball.dragging
    THEN {[ball EXCEPT !.vel = v] : v \in {0, 2}}
    ELSE IF ball.vel = 0
    THEN {ball}
    ELSE {[ball EXCEPT !.vel = v, !.at = a] :
              v \in 0..ball.vel, a \in {"table", "pocket"}}

\* main.py:151-153: the loop over the balls (todo: the indices still to
\* update; a ball at rest that is not dragged is left as it is)
RECURSIVE PhysicsLoop(_, _)
PhysicsLoop(bs, todo) ==
    IF todo = {} THEN {bs}
    ELSE LET i == CHOOSE x \in todo : \A y \in todo : x <= y
         IN UNION {PhysicsLoop([bs EXCEPT ![i] = b], todo \ {i}) :
                      b \in apply_physics(bs[i])}

PhysicsUpdates(bs) ==
    PhysicsLoop(bs, {i \in DOMAIN bs : bs[i].dragging \/ bs[i].vel > 0})

\* check_pockets with the cue ball removed like any other captured ball
check_pockets_removes_cue(bs) ==
    LET captured(b) == b.at = "pocket"
        caught == SelectSeq(bs, captured)
        kept(b) == ~captured(b)
    IN [sunk_data |-> [i \in 1..Len(caught) |->
                          [type |-> caught[i].type, number |-> caught[i].number]],
        balls |-> SelectSeq(bs, kept)]

\* check_pockets reporting the captured balls without removing them: they
\* are put back on the table where they are
check_pockets_keeps_sunk(bs) ==
    LET captured(b) == b.at = "pocket"
        caught == SelectSeq(bs, captured)
    IN [sunk_data |-> [i \in 1..Len(caught) |->
                          [type |-> caught[i].type, number |-> caught[i].number]],
        balls |-> [i \in 1..Len(bs) |->
                      IF captured(bs[i])
                      THEN [bs[i] EXCEPT !.at = "table", !.vel = 0]
                      ELSE bs[i]]]

\* check_pockets: one entry (type, number) per ball inside a capture radius,
\* in list order; a captured cue ball is put back on its spot with zero
\* velocity, every other captured ball is removed from the list
check_pockets(bs) ==
    LET captured(b) == b.at = "pocket"
        caught == SelectSeq(bs, captured)
        kept(b) == ~captured(b) \/ b.number = 0
        rest == SelectSeq(bs, kept)
    IN [sunk_data |-> [i \in 1..Len(caught) |->
                          [type |-> caught[i].type, number |-> caught[i].number]],
        balls |-> [i \in 1..Len(rest) |->
                      IF captured(rest[i])
                      THEN [rest[i] EXCEPT !.at = "table", !.vel = 0]
                      ELSE rest[i]]]

\* calculate_neighbors + the 8 sub-steps of check_all_collisions: a ball with
\* a velocity may pass part of it to a resting neighbour; positions stay in
\* the zone they are in
CollisionOutcomes(bs, E) ==
    LET sources == {i \in DOMAIN bs : bs[i].vel > 0}
        movable == Movable(bs, E)
        targets == {i \in DOMAIN bs :
                       bs[i].vel = 0 /\ ~bs[i].dragging /\ bs[i].number \in movable}
        moving == NumMoving(bs)
        after(s, t, w) ==
            moving
            - (IF bs[s].number # 0 /\ ~bs[s].dragging /\ w = 0 THEN 1 ELSE 0)
            + (IF bs[t].number # 0 THEN 1 ELSE 0)
    IN {bs} \cup
       UNION {
         UNION {
           {[bs EXCEPT ![t].vel = v, ![s].vel = IF bs[s].dragging THEN bs[s].vel ELSE w] :
               v \in 1..bs[s].vel,
               w \in {x \in 0..bs[s].vel : after(s, t, x) <= E.moving}}
           : t \in targets \ {s}}
         : s \in sources}

(* ---------------- main.py: rules ---------------- *)

Complement(t) == IF t = "solid" THEN "stripe" ELSE "solid"

\* the instant update leaving an 8-ball captured on an open table to the shot
\* resolution
InstantUpdate_defers_8ball(m, b_data) ==
    LET cur == m.cur
        b_type == b_data.type
        b_num == b_data.number
        m1 == [m EXCEPT !.sunk = Append(m.sunk, b_data)]
    IN IF b_type \in {"solid", "stripe", "8ball"}
       THEN IF m1.types[cur] = "none" /\ b_type # "8ball"
            THEN [m1 EXCEPT !.types = [p \in 0..1 |->
                                IF p = cur THEN b_type ELSE Complement(b_type)],
                            !.scores[cur] = m1.scores[cur] + 1]
            ELSE IF b_type = m1.types[cur]
            THEN [m1 EXCEPT !.scores[cur] = m1.scores[cur] + 1]
            ELSE IF b_num # 8
            THEN [m1 EXCEPT !.balls = Append(m1.balls, create_ball("table", b_num))]
            ELSE m1
       ELSE m1

\* the instant update assigning the kinds of the first pot without the point
InstantUpdate_no_first_point(m, b_data) ==
    LET cur == m.cur
        b_type == b_data.type
        b_num == b_data.number
        m1 == [m EXCEPT !.sunk = Append(m.sunk, b_data)]
    IN IF b_type \in {"solid", "stripe", "8ball"}
       THEN IF m1.types[cur] = "none"
            THEN IF b_type = "8ball"
                 THEN [m1 EXCEPT !.over = TRUE,
                                 !.winner = PlayerNames[1 - cur],
                                 !.since = 0,
                                 !.brk = TRUE]
                 ELSE [m1 EXCEPT !.types = [p \in 0..1 |->
                                     IF p = cur THEN b_type ELSE Complement(b_type)]]
            ELSE IF b_type = m1.types[cur]
            THEN [m1 EXCEPT !.scores[cur] = m1.scores[cur] + 1]
            ELSE IF b_num # 8
            THEN [m1 EXCEPT !.balls = Append(m1.balls, create_ball("table", b_num))]
            ELSE m1
       ELSE m1

\* the instant update leaving a captured ball of the other kind off the table
InstantUpdate_no_respawn(m, b_data) ==
    LET cur == m.cur
        b_type == b_data.type
        m1 == [m EXCEPT !.sunk = Append(m.sunk, b_data)]
    IN IF b_type \in {"solid", "stripe", "8ball"}
       THEN IF m1.types[cur] = "none"
            THEN IF b_type = "8ball"
                 THEN [m1 EXCEPT !.over = TRUE,
                                 !.winner = PlayerNames[1 - cur],
                                 !.since = 0,
                                 !.brk = TRUE]
                 ELSE [m1 EXCEPT !.types = [p \in 0..1 |->
                                     IF p = cur THEN b_type ELSE Complement(b_type)],
                                 !.scores[cur] = m1.scores[cur] + 1]
            ELSE IF b_type = m1.types[cur]
            THEN [m1 EXCEPT !.scores[cur] = m1.scores[cur] + 1]
            ELSE m1
       ELSE m1

\* the instant update counting a point for a captured ball of the other kind
InstantUpdate_scores_respawn(m, b_data) ==
    LET cur == m.cur
        b_type == b_data.type
        b_num == b_data.number
        m1 == [m EXCEPT !.sunk = Append(m.sunk, b_data)]
    IN IF b_type \in {"solid", "stripe", "8ball"}
       THEN IF m1.types[cur] = "none"
            THEN IF b_type = "8ball"
                 THEN [m1 EXCEPT !.over = TRUE,
                                 !.winner = PlayerNames[1 - cur],
                                 !.since = 0,
                                 !.brk = TRUE]
                 ELSE [m1 EXCEPT !.types = [p \in 0..1 |->
                                     IF p = cur THEN b_type ELSE Complement(b_type)],
                                 !.scores[cur] = m1.scores[cur] + 1]
            ELSE IF b_type = m1.types[cur]
            THEN [m1 EXCEPT !.scores[cur] = m1.scores[cur] + 1]
            ELSE IF b_num # 8
            THEN [m1 EXCEPT !.balls = Append(m1.balls, create_ball("table", b_num)),
                            !.scores[cur] = m1.scores[cur] + 1]
            ELSE m1
       ELSE m1

\* the instant update passing the turn with the respawn of an opponent's ball
InstantUpdate_passes_turn(m, b_data) ==
    LET cur == m.cur
        b_type == b_data.type
        b_num == b_data.number
        m1 == [m EXCEPT !.sunk = Append(m.sunk, b_data)]
    IN IF b_type \in {"solid", "stripe", "8ball"}
       THEN IF m1.types[cur] = "none"
            THEN IF b_type = "8ball"
                 THEN [m1 EXCEPT !.over = TRUE,
                                 !.winner = PlayerNames[1 - cur],
                                 !.since = 0,
                                 !.brk = TRUE]
                 ELSE [m1 EXCEPT !.types = [p \in 0..1 |->
                                     IF p = cur THEN b_type ELSE Complement(b_type)],
                                 !.scores[cur] = m1.scores[cur] + 1]
            ELSE IF b_type = m1.types[cur]
            THEN [m1 EXCEPT !.scores[cur] = m1.scores[cur] + 1]
            ELSE IF b_num # 8
            THEN [m1 EXCEPT !.balls = Append(m1.balls, create_ball("table", b_num)),
                            !.cur = 1 - cur]
            ELSE m1
       ELSE m1

\* the instant update assigning a kind to the player at the table only
InstantUpdate_assigns_one(m, b_data) ==
    LET cur == m.cur
        b_type == b_data.type
        b_num == b_data.number
        m1 == [m EXCEPT !.sunk = Append(m.sunk, b_data)]
    IN IF b_type \in {"solid", "stripe", "8ball"}
       THEN IF m1.types[cur] = "none"
            THEN IF b_type = "8ball"
                 THEN [m1 EXCEPT !.over = TRUE,
                                 !.winner = PlayerNames[1 - cur],
                                 !.since = 0,
                                 !.brk = TRUE]
                 ELSE [m1 EXCEPT !.types[cur] = b_type,
                                 !.scores[cur] = m1.scores[cur] + 1]
            ELSE IF b_type = m1.types[cur]
            THEN [m1 EXCEPT !.scores[cur] = m1.scores[cur] + 1]
            ELSE IF b_num # 8
            THEN [m1 EXCEPT !.balls = Append(m1.balls, create_ball("table", b_num))]
            ELSE m1
       ELSE m1

\* main.py:159-188, the body of the loop over sunk_this_frame for one entry.
\* m is the match state the loop works on; brk is set by the break of line 173.
InstantUpdate(m, b_data) ==
    LET cur == m.cur
        b_type == b_data.type
        b_num == b_data.number
        m1 == [m EXCEPT !.sunk = Append(m.sunk, b_data)]
    IN IF b_type \in {"solid", "stripe", "8ball"}
       THEN IF m1.types[cur] = "none"
            THEN IF b_type = "8ball"
                 THEN [m1 EXCEPT !.over = TRUE,
                                 !.winner = PlayerNames[1 - cur],
                                 !.since = 0,
                                 !.brk = TRUE]
                 ELSE [m1 EXCEPT !.types = [p \in 0..1 |->
                                     IF p = cur THEN b_type ELSE Complement(b_type)],
                                 !.scores[cur] = m1.scores[cur] + 1]
            ELSE IF b_type = m1.types[cur]
            THEN [m1 EXCEPT !.scores[cur] = m1.scores[cur] + 1]
            ELSE IF b_num # 8
            THEN [m1 EXCEPT !.balls = Append(m1.balls, create_ball("table", b_num))]
            ELSE m1
       ELSE m1

\* main.py:158-188, the loop
RECURSIVE InstantUpdates(_, _, _)
InstantUpdates(m, sunk, i) ==
    IF i > Len(sunk) \/ m.brk THEN m
    ELSE InstantUpdates(InstantUpdate(m, sunk[i]), sunk, i + 1)

\* the classification of the capture buffer without the cue-ball foul
ShotFoul_ignores_cue(buf, types, cur) ==
    \E i \in DOMAIN buf :
        /\ buf[i].type # "8ball"
        /\ buf[i].type # types[cur]
        /\ buf[i].type \in {"solid", "stripe"}

\* main.py:197-207: the classification of the capture buffer
ShotFoul(buf, types, cur) ==
    \E i \in DOMAIN buf :
        \/ buf[i].type = "cue"
        \/ /\ buf[i].type # "8ball"
           /\ buf[i].type # types[cur]
           /\ buf[i].type \in {"solid", "stripe"}

ShotSunk8(buf) == \E i \in DOMAIN buf : buf[i].type = "8ball"

ShotKeepTurn(buf, types, cur) ==
    \E i \in DOMAIN buf :
        /\ buf[i].type \notin {"cue", "8ball"}
        /\ buf[i].type = types[cur]

\* the clean-win test granting the win from six points
CleanWin_from_six(buf, types, scores, cur) ==
    LET my_type == types[cur]
        my_balls_this_shot == Cardinality({i \in DOMAIN buf : buf[i].type = my_type})
        points_before_shot == scores[cur] - my_balls_this_shot
    IN /\ my_type # "none"
       /\ points_before_shot >= 6
       /\ my_balls_this_shot = 0
       /\ ~ShotFoul(buf, types, cur)

\* main.py:211-216: the clean-win test of the 8-ball rules
CleanWin(buf, types, scores, cur) ==
    LET my_type == types[cur]
        my_balls_this_shot == Cardinality({i \in DOMAIN buf : buf[i].type = my_type})
        points_before_shot == scores[cur] - my_balls_this_shot
    IN /\ my_type # "none"
       /\ points_before_shot >= 7
       /\ my_balls_this_shot = 0
       /\ ~ShotFoul(buf, types, cur)

\* shot resolution passing the turn only when a foul occurred and no own-kind
\* ball was captured
ShotResolution_foul_and_no_own(m) ==
    LET cur == m.cur
        foul == ShotFoul(m.sunk, m.types, cur)
        keep_turn == ShotKeepTurn(m.sunk, m.types, cur)
        sunk_8ball == ShotSunk8(m.sunk)
        m1 == IF sunk_8ball
              THEN [m EXCEPT !.over = TRUE,
                             !.since = 0,
                             !.winner = IF CleanWin(m.sunk, m.types, m.scores, cur)
                                        THEN PlayerNames[cur]
                                        ELSE PlayerNames[1 - cur]]
              ELSE m
        m2 == IF ~m1.over /\ (foul /\ ~keep_turn)
              THEN [m1 EXCEPT !.cur = 1 - cur]
              ELSE m1
    IN [m2 EXCEPT !.shot = FALSE, !.sunk = <<>>]

\* the resolution without the clearing of the capture buffer (main.py:236)
ShotResolution_keeps_buffer(m) ==
    LET cur == m.cur
        foul == ShotFoul(m.sunk, m.types, cur)
        keep_turn == ShotKeepTurn(m.sunk, m.types, cur)
        sunk_8ball == ShotSunk8(m.sunk)
        m1 == IF sunk_8ball
              THEN [m EXCEPT !.over = TRUE,
                             !.since = 0,
                             !.winner = IF CleanWin(m.sunk, m.types, m.scores, cur)
                                        THEN PlayerNames[cur]
                                        ELSE PlayerNames[1 - cur]]
              ELSE m
        m2 == IF ~m1.over /\ (foul \/ ~keep_turn)
              THEN [m1 EXCEPT !.cur = 1 - cur]
              ELSE m1
    IN [m2 EXCEPT !.shot = FALSE]

\* main.py:192-236: shot resolution
ShotResolution(m) ==
    LET cur == m.cur
        foul == ShotFoul(m.sunk, m.types, cur)
        keep_turn == ShotKeepTurn(m.sunk, m.types, cur)
        sunk_8ball == ShotSunk8(m.sunk)
        m1 == IF sunk_8ball
              THEN [m EXCEPT !.over = TRUE,
                             !.since = 0,
                             !.winner = IF CleanWin(m.sunk, m.types, m.scores, cur)
                                        THEN PlayerNames[cur]
                                        ELSE PlayerNames[1 - cur]]
              ELSE m
        m2 == IF ~m1.over /\ (foul \/ ~keep_turn)
              THEN [m1 EXCEPT !.cur = 1 - cur]
              ELSE m1
    IN [m2 EXCEPT !.shot = FALSE, !.sunk = <<>>]

(* ---------------- functions.py: collision resolver ---------------- *)

\* Positions are held in grid points, Grid to the pixel, and velocities in
\* VelGrid-ths of a pixel per frame, so that the halvings, the restitution
\* factors and the normals of the inputs below are exact.
Grid == 2 ^ 8
VelGrid == 4 * 1250

WIDTH == 1920
TABLE_W == 1500
TABLE_H == 750
TABLE_X == (WIDTH - TABLE_W) \div 2
TABLE_Y == 250
CUSHION_SIZE == 60
BALL_RADIUS == 20
\* bounce_factor 0.96 and CUSHION_BOUNCE 0.75, in hundredths
bounce_factor == 96
CUSHION_BOUNCE == 75
\* main.py:240, for _ in range(8)
SubSteps == 8

Abs(x) == IF x < 0 THEN -x ELSE x

RECURSIVE GCD(_, _)
GCD(a, b) == IF b = 0 THEN a ELSE GCD(b, a % b)

\* math.sqrt on the grid: the integer root (exact for the distances the
\* inputs produce)
RECURSIVE SqrtIn(_, _, _)
SqrtIn(n, lo, hi) ==
    IF lo >= hi THEN lo
    ELSE LET mid == (lo + hi + 1) \div 2
         IN IF mid * mid <= n THEN SqrtIn(n, mid, hi) ELSE SqrtIn(n, lo, mid - 1)

Sqrt(n) == SqrtIn(n, 0, 2 * BALL_RADIUS * Grid)

\* the playable inset of _collide_with_walls for a ball of radius BALL_RADIUS
InsetLeft == (TABLE_X + CUSHION_SIZE + BALL_RADIUS) * Grid
InsetRight == (TABLE_X + TABLE_W - CUSHION_SIZE - BALL_RADIUS) * Grid
InsetTop == (TABLE_Y + CUSHION_SIZE + BALL_RADIUS) * Grid
InsetBottom == (TABLE_Y + TABLE_H - CUSHION_SIZE - BALL_RADIUS) * Grid

\* _collide_with_walls: clamp to the inset, reflect and damp the velocity
_collide_with_walls(ball) ==
    LET bx == IF ball.x < InsetLeft
              THEN [ball EXCEPT !.x = InsetLeft,
                                !.vel_x = (Abs(ball.vel_x) * CUSHION_BOUNCE) \div 100]
              ELSE IF ball.x > InsetRight
              THEN [ball EXCEPT !.x = InsetRight,
                                !.vel_x = -((Abs(ball.vel_x) * CUSHION_BOUNCE) \div 100)]
              ELSE ball
    IN IF bx.y < InsetTop
       THEN [bx EXCEPT !.y = InsetTop,
                       !.vel_y = (Abs(bx.vel_y) * CUSHION_BOUNCE) \div 100]
       ELSE IF bx.y > InsetBottom
       THEN [bx EXCEPT !.y = InsetBottom,
                       !.vel_y = -((Abs(bx.vel_y) * CUSHION_BOUNCE) \div 100)]
       ELSE bx

DistanceSq(ball, neighbor) ==
    (neighbor.x - ball.x) * (neighbor.x - ball.x)
    + (neighbor.y - ball.y) * (neighbor.y - ball.y)

\* The collision normal (nx, ny) = (dx, dy) / distance as the fraction
\* (x, y) / den in lowest terms.  For coincident centres dx = dy = 0 and the
\* code divides them by the fallback distance 0.001: the normal is (0, 0).
Normal(ball, neighbor) ==
    LET dx == neighbor.x - ball.x
        dy == neighbor.y - ball.y
        distance_sq == DistanceSq(ball, neighbor)
    IN IF distance_sq > 0
       THEN LET distance == Sqrt(distance_sq)
                g == GCD(GCD(Abs(dx), Abs(dy)), distance)
            IN [x |-> dx \div g, y |-> dy \div g, den |-> distance \div g]
       ELSE [x |-> 0, y |-> 0, den |-> 1]

\* _collide_with_ball with the whole of (1 + bounce) as the impulse
_collide_with_ball_full_impulse(ball, neighbor) ==
    LET distance_sq == DistanceSq(ball, neighbor)
        sum_radii == 2 * BALL_RADIUS * Grid
        n == Normal(ball, neighbor)
        distance == IF distance_sq > 0 THEN Sqrt(distance_sq) ELSE 0
        overlap == sum_radii - distance
        shift_x == (n.x * overlap) \div (2 * n.den)
        shift_y == (n.y * overlap) \div (2 * n.den)
        b1 == [ball EXCEPT !.x = @ - shift_x, !.y = @ - shift_y]
        n1 == [neighbor EXCEPT !.x = @ + shift_x, !.y = @ + shift_y]
        \* vel_along_normal = along / den
        along == (ball.vel_x - neighbor.vel_x) * n.x
                 + (ball.vel_y - neighbor.vel_y) * n.y
        \* impulse * nx = vel_along_normal * (1 + bounce) * nx
        imp_x == (along * (100 + bounce_factor) * n.x) \div (100 * n.den * n.den)
        imp_y == (along * (100 + bounce_factor) * n.y) \div (100 * n.den * n.den)
    IN IF distance_sq >= sum_radii * sum_radii THEN <<ball, neighbor>>
       ELSE IF along <= 0 THEN <<b1, n1>>
       ELSE <<[b1 EXCEPT !.vel_x = @ - imp_x, !.vel_y = @ - imp_y],
              [n1 EXCEPT !.vel_x = @ + imp_x, !.vel_y = @ + imp_y]>>

\* _collide_with_ball: <<ball, neighbor>> after the resolution.  The fallback
\* distance 0.001 (below the grid) enters the overlap only, which is
\* multiplied by the zero normal.
_collide_with_ball(ball, neighbor) ==
    LET distance_sq == DistanceSq(ball, neighbor)
        sum_radii == 2 * BALL_RADIUS * Grid
        n == Normal(ball, neighbor)
        distance == IF distance_sq > 0 THEN Sqrt(distance_sq) ELSE 0
        overlap == sum_radii - distance
        shift_x == (n.x * overlap) \div (2 * n.den)
        shift_y == (n.y * overlap) \div (2 * n.den)
        b1 == [ball EXCEPT !.x = @ - shift_x, !.y = @ - shift_y]
        n1 == [neighbor EXCEPT !.x = @ + shift_x, !.y = @ + shift_y]
        \* vel_along_normal = along / den
        along == (ball.vel_x - neighbor.vel_x) * n.x
                 + (ball.vel_y - neighbor.vel_y) * n.y
        \* impulse * nx = vel_along_normal * (1 + bounce) * 0.5 * nx
        imp_x == (along * (100 + bounce_factor) * n.x) \div (200 * n.den * n.den)
        imp_y == (along * (100 + bounce_factor) * n.y) \div (200 * n.den * n.den)
    IN IF distance_sq >= sum_radii * sum_radii THEN <<ball, neighbor>>
       ELSE IF along <= 0 THEN <<b1, n1>>
       ELSE <<[b1 EXCEPT !.vel_x = @ - imp_x, !.vel_y = @ - imp_y],
              [n1 EXCEPT !.vel_x = @ + imp_x, !.vel_y = @ + imp_y]>>

\* calculate_neighbors for the pair: closer than sum_radii + radius
Nearby(ball, neighbor) ==
    DistanceSq(ball, neighbor) < (3 * BALL_RADIUS * Grid) * (3 * BALL_RADIUS * Grid)

\* check_all_collisions for a list of two balls: each ball is clamped in list
\* order, and the pair is resolved in the turn of the ball with the lower
\* id(), if they are neighbours.  low: the list index of that ball.
check_all_collisions(bs, low, near) ==
    LET a1 == _collide_with_walls(bs[1])
        p1 == IF near /\ low = 1 THEN _collide_with_ball(a1, bs[2])
              ELSE <<a1, bs[2]>>
        b2 == _collide_with_walls(p1[2])
        p2 == IF near /\ low = 2 THEN _collide_with_ball(b2, p1[1])
              ELSE <<b2, p1[1]>>
    IN <<p2[2], p2[1]>>

NoRoll == [n \in 0..15 |-> 0]

NoNb == [live |-> <<>>, obj |-> <<>>, calls |-> <<>>, rebuilt |-> FALSE,
         removed |-> 0, stale |-> {}]

NoPot == [before |-> <<>>, after |-> <<>>, sunk_data |-> <<>>, done |-> FALSE]

NoContact == [start |-> <<>>, balls |-> <<>>, low |-> 1, near |-> FALSE, substep |-> 0]

(* ---------------- state machine ---------------- *)

NoTypes == [p \in 0..1 |-> "none"]
NoScores == [p \in 0..1 |-> 0]

\* main.py:36-52 and the setup_rack() of line 70
Init ==
    /\ balls = setup_rack
    /\ player_ball_types = NoTypes
    /\ player_scores = NoScores
    /\ current_player_idx = 0
    /\ game_started = FALSE
    /\ game_over = FALSE
    /\ ticks_since_over = 0
    /\ winner_name = ""
    /\ shot_taken = FALSE
    /\ charging_shot = FALSE
    /\ balls_sunk_in_shot = <<>>
    /\ sunk_this_frame = <<>>
    /\ frame_error = FALSE
    /\ contact = NoContact
    /\ roll = NoRoll
    /\ pot = NoPot
    /\ nb = NoNb

\* main.py:101-110: RETURN on the second name starts the match
StartMatch ==
    /\ ~game_over
    /\ ~game_started
    /\ \E first \in 0..1 : current_player_idx' = first
    /\ game_started' = TRUE
    /\ balls' = setup_rack
    /\ UNCHANGED <<player_ball_types, player_scores, game_over, ticks_since_over,
                   winner_name, shot_taken, charging_shot, balls_sunk_in_shot,
                   sunk_this_frame>>
    /\ UNCHANGED aux

\* the game-over reset taken at any event, whatever time has elapsed
GameOverEvent_any_time ==
    /\ game_over
    /\ game_over' = FALSE
    /\ player_ball_types' = NoTypes
    /\ player_scores' = NoScores
    /\ shot_taken' = FALSE
    /\ charging_shot' = FALSE
    /\ balls_sunk_in_shot' = <<>>
    /\ \E first \in 0..1 : current_player_idx' = first
    /\ balls' = setup_rack
    /\ ticks_since_over' = 0
    /\ UNCHANGED <<game_started, winner_name, sunk_this_frame>>
    /\ UNCHANGED aux

\* main.py:89-98: any event while the game is over
GameOverEvent ==
    /\ game_over
    /\ IF ticks_since_over > DisplayDelay
       THEN /\ game_over' = FALSE
            /\ player_ball_types' = NoTypes
            /\ player_scores' = NoScores
            /\ shot_taken' = FALSE
            /\ charging_shot' = FALSE
            /\ balls_sunk_in_shot' = <<>>
            /\ \E first \in 0..1 : current_player_idx' = first
            /\ balls' = setup_rack
            /\ ticks_since_over' = 0
            /\ UNCHANGED <<game_started, winner_name, sunk_this_frame>>
            /\ UNCHANGED aux
       ELSE UNCHANGED vars

\* main.py:117-133 with handle_mouse: left button pressed on the balls at the
\* indices of grabbed (the pointer is within the radius of at most one ball).
\* Presses and releases alternate; a press while a charge is still pending
\* from an earlier press is left out.
MouseButtonDown(E) ==
    /\ game_started /\ ~game_over
    /\ \A i \in DOMAIN balls : ~balls[i].dragging
    /\ ~charging_shot
    /\ \E grabbed \in SUBSET {i \in DOMAIN balls : balls[i].number \in E.grab} :
        /\ Cardinality(grabbed) <= 1
        /\ LET moving == are_balls_moving(balls)
               is_dragging == grabbed # {}
           IN /\ balls' = [i \in DOMAIN balls |->
                              IF i \in grabbed
                              THEN [balls[i] EXCEPT !.dragging = TRUE, !.vel = 0]
                              ELSE balls[i]]
              /\ charging_shot' = (~moving /\ HasCueBall(balls) /\ ~is_dragging)
    /\ UNCHANGED <<player_ball_types, player_scores, current_player_idx,
                   game_started, game_over, ticks_since_over, winner_name,
                   shot_taken, balls_sunk_in_shot, sunk_this_frame>>
    /\ UNCHANGED aux

\* the release whose strike leaves the capture buffer as it is
MouseButtonUp_keeps_buffer ==
    /\ game_started /\ ~game_over
    /\ LET moving == are_balls_moving(balls)
           was_dragging == \E i \in DOMAIN balls : balls[i].dragging
           released == [i \in DOMAIN balls |-> [balls[i] EXCEPT !.dragging = FALSE]]
       IN IF ~moving /\ HasCueBall(balls) /\ charging_shot
          THEN /\ \E power \in 0..2 : balls' = [released EXCEPT ![1].vel = power]
               /\ charging_shot' = FALSE
               /\ shot_taken' = TRUE
               /\ UNCHANGED balls_sunk_in_shot
          ELSE /\ balls' = released
               /\ shot_taken' = (shot_taken \/ was_dragging)
               /\ UNCHANGED <<charging_shot, balls_sunk_in_shot>>
    /\ UNCHANGED <<player_ball_types, player_scores, current_player_idx,
                   game_started, game_over, ticks_since_over, winner_name,
                   sunk_this_frame>>
    /\ UNCHANGED aux

\* main.py:117-143 with handle_mouse: left button released; power is the
\* class of the speed min(dist * 0.15, 30) given to the cue ball
MouseButtonUp ==
    /\ game_started /\ ~game_over
    /\ LET moving == are_balls_moving(balls)
           was_dragging == \E i \in DOMAIN balls : balls[i].dragging
           released == [i \in DOMAIN balls |-> [balls[i] EXCEPT !.dragging = FALSE]]
       IN IF ~moving /\ HasCueBall(balls) /\ charging_shot
          THEN /\ \E power \in 0..2 : balls' = [released EXCEPT ![1].vel = power]
               /\ charging_shot' = FALSE
               /\ shot_taken' = TRUE
               /\ balls_sunk_in_shot' = <<>>
          ELSE /\ balls' = released
               /\ shot_taken' = (shot_taken \/ was_dragging)
               /\ UNCHANGED <<charging_shot, balls_sunk_in_shot>>
    /\ UNCHANGED <<player_ball_types, player_scores, current_player_idx,
                   game_started, game_over, ticks_since_over, winner_name,
                   sunk_this_frame>>
    /\ UNCHANGED aux

\* main.py:122 with handle_mouse: the pointer moves and a dragged ball follows
\* it, into or out of the capture radius of a pocket
MouseMotion ==
    /\ game_started /\ ~game_over
    /\ \E i \in DOMAIN balls : balls[i].dragging
    /\ \E zone \in {"table", "pocket"} :
        balls' = [i \in DOMAIN balls |->
                     IF balls[i].dragging THEN [balls[i] EXCEPT !.at = zone]
                     ELSE balls[i]]
    /\ UNCHANGED <<player_ball_types, player_scores, current_player_idx,
                   game_started, game_over, ticks_since_over, winner_name,
                   shot_taken, charging_shot, balls_sunk_in_shot, sunk_this_frame>>
    /\ UNCHANGED aux

\* main.py:156: the match state the frame logic works on, after check_pockets
AfterPockets(pockets) ==
    [cur |-> current_player_idx, types |-> player_ball_types,
     scores |-> player_scores, balls |-> pockets.balls,
     sunk |-> balls_sunk_in_shot, frame |-> pockets.sunk_data,
     over |-> game_over, winner |-> winner_name, since |-> ticks_since_over,
     shot |-> shot_taken, brk |-> FALSE]

\* main.py:190-192: the shot is evaluated when it is pending, no ball exceeds
\* the motion threshold and the game is not over
Resolve(m) ==
    IF m.shot /\ ~are_balls_moving(m.balls) /\ ~m.over THEN ShotResolution(m) ELSE m

\* main.py:239-241, then the clock.tick of the next iteration
Collide(m, E) ==
    {[m EXCEPT !.balls = collided,
               !.since = IF m.over
                         THEN Min2(m.since + TickMs, DisplayDelay + 1)
                         ELSE 0] :
        collided \in CollisionOutcomes(m.balls, E)}

\* main.py:156-236: pockets, instant updates and shot resolution
FrameRules(moved) ==
    Resolve(InstantUpdates(AfterPockets(check_pockets(moved)),
                           check_pockets(moved).sunk_data, 1))

\* main.py:148-241: the outcomes of the game logic of one frame
FrameOutcomes(E) ==
    UNION {Collide(m, E) :
              m \in {r \in {FrameRules(moved) : moved \in PhysicsUpdates(balls)} :
                        /\ Len(balls_sunk_in_shot) + Len(r.frame) <= E.buffer
                        /\ Len(r.balls) + E.potted >= Len(setup_rack)}}

Frame(E) ==
    /\ game_started
    /\ \E m \in FrameOutcomes(E) :
           /\ balls' = m.balls
           /\ sunk_this_frame' = m.frame
           /\ player_ball_types' = m.types
           /\ player_scores' = m.scores
           /\ current_player_idx' = m.cur
           /\ game_over' = m.over
           /\ winner_name' = m.winner
           /\ shot_taken' = m.shot
           /\ balls_sunk_in_shot' = m.sunk
           /\ ticks_since_over' = m.since
    /\ UNCHANGED <<game_started, charging_shot>>
    /\ UNCHANGED aux

Next ==
    \/ StartMatch
    \/ GameOverEvent
    \/ MouseButtonDown(PlayEnv)
    \/ MouseButtonUp
    \/ MouseMotion
    \/ Frame(PlayEnv)

Spec == Init /\ [][Next]_vars

\* The long match: strikes only, the balls up to MatchRolls in play, no rematch
MatchNext ==
    \/ StartMatch
    \/ MouseButtonDown(MatchEnv)
    \/ MouseButtonUp
    \/ Frame(MatchEnv)

SpecMatch == Init /\ [][MatchNext]_vars

(* ---------------- main.py: the frame as the loop calls it ---------------- *)

\* functions.py:130, def apply_physics(ball, dt_multiplier): its parameters
apply_physics_params == 2
\* main.py:153, apply_physics(ball, GRAVITY, dt_multiplier): its arguments
apply_physics_args == 3

\* A call binds its positional arguments to the parameters of the definition
\* (none of these has a default or a *args); it raises TypeError, before the
\* body runs, when the counts differ.
CallRaises(args, params) == args # params

\* functions.py:122-128 update_inertia: a dragged ball takes the displacement
\* since the previous frame as its velocity
update_inertia(ball) ==
    IF ball.dragging THEN {[ball EXCEPT !.vel = v] : v \in {0, 2}} ELSE {ball}

\* main.py:148-153 as written: the loop over the balls calls update_inertia
\* and then apply_physics for the first ball.  When that call raises, the
\* exception leaves the main loop: no later step of the frame runs.  (The
\* call of check_all_collisions at main.py:241 has one argument too many
\* in the same way; it is reached only if line 153 returns.)
FrameAsWritten ==
    /\ game_started /\ ~frame_error
    /\ IF balls # <<>> /\ CallRaises(apply_physics_args, apply_physics_params)
       THEN /\ frame_error' = TRUE
            /\ UNCHANGED <<contact, roll, pot, nb>>
            /\ \E b \in update_inertia(balls[1]) : balls' = [balls EXCEPT ![1] = b]
            /\ UNCHANGED <<player_ball_types, player_scores, current_player_idx,
                           game_started, game_over, ticks_since_over, winner_name,
                           shot_taken, charging_shot, balls_sunk_in_shot,
                           sunk_this_frame>>
       ELSE Frame(PlayEnv)

\* the pointer grabs any ball (functions.py handle_mouse is called for each),
\* here those numbered up to MaxGrab
LoopEnv == [PlayEnv EXCEPT !.grab = 0..MaxGrab]

\* The main loop as written: events are handled while the process runs
LoopNext ==
    \/ ~frame_error /\ StartMatch
    \/ ~frame_error /\ MouseButtonDown(LoopEnv)
    \/ ~frame_error /\ MouseButtonUp
    \/ ~frame_error /\ MouseMotion
    \/ FrameAsWritten

SpecAsWritten == Init /\ [][LoopNext]_vars

(* ---------------- main.py:239-241: the collision sub-steps ---------------- *)

Kin(x, y, vx, vy) ==
    [x |-> x * Grid, y |-> y * Grid, vel_x |-> vx * VelGrid, vel_y |-> vy * VelGrid]

\* main.py:186-187, the point opponent balls are put back at
mid_x == TABLE_X + TABLE_W \div 2
mid_y == TABLE_Y + TABLE_H \div 2

\* Placements of the pair in pixels: the first ball's centre and the second
\* ball's offset from it.  In the middle of the table: coincident, overlapping
\* along an axis and along a 3-4-5 direction, touching, near, and apart.
\* Against the left and the top cushion: overlapping along the axis of the
\* cushion's normal.
Placements ==
    {<<mid_x, mid_y, d[1], d[2]>> :
        d \in {<<0, 0>>, <<8, 0>>, <<24, 0>>, <<12, 16>>, <<0, -24>>,
               <<40, 0>>, <<48, 0>>, <<64, 0>>}}
    \cup {<<InsetLeft \div Grid, mid_y, d, 0>> : d \in {8, 24}}
    \cup {<<mid_x, InsetTop \div Grid, 0, d>> : d \in {8, 24}}

ContactInputs ==
    {<<Kin(p[1], p[2], v[1], v[2]), Kin(p[1] + p[3], p[2] + p[4], v[3], v[4])>> :
        p \in Placements,
        v \in (-MaxSpeed..MaxSpeed) \X (-MaxSpeed..MaxSpeed)
              \X (-MaxSpeed..MaxSpeed) \X (-MaxSpeed..MaxSpeed)}

\* The state at main.py:239: calculate_neighbors has run on the two balls;
\* which of the two objects has the lower id() is not fixed by the program.
InitContact ==
    /\ balls = setup_rack
    /\ player_ball_types = NoTypes
    /\ player_scores = NoScores
    /\ current_player_idx = 0
    /\ game_started = TRUE
    /\ game_over = FALSE
    /\ ticks_since_over = 0
    /\ winner_name = ""
    /\ shot_taken = FALSE
    /\ charging_shot = FALSE
    /\ balls_sunk_in_shot = <<>>
    /\ sunk_this_frame = <<>>
    /\ frame_error = FALSE
    /\ \E bs \in ContactInputs, low \in 1..2 :
          contact = [start |-> bs, balls |-> bs, low |-> low,
                     near |-> Nearby(bs[1], bs[2]), substep |-> 0]
    /\ roll = NoRoll
    /\ pot = NoPot
    /\ nb = NoNb

\* one pass of the loop at main.py:240-241
CollisionSubstep ==
    /\ contact.balls # <<>>
    /\ contact.substep < SubSteps
    /\ contact' = [contact EXCEPT
                     !.balls = check_all_collisions(contact.balls, contact.low,
                                                    contact.near),
                     !.substep = @ + 1]
    /\ UNCHANGED <<balls, player_ball_types, player_scores, current_player_idx,
                   game_started, game_over, ticks_since_over, winner_name,
                   shot_taken, charging_shot, balls_sunk_in_shot,
                   sunk_this_frame, frame_error, roll, pot, nb>>

ContactNext == CollisionSubstep

SpecContact == InitContact /\ [][ContactNext]_vars

(* ---------------- the rolling frame: speeds in numbers ---------------- *)

\* Speeds are in hundredths of a pixel per frame, rounded down.  friction
\* 0.991 (functions.py:72) in thousandths; the stop test speed_sq < 0.01
\* (functions.py:141-142) and the motion test > 0.2 (main.py:190) as speeds.
friction == 991
SpeedStop == 10
SpeedMoving == 20

SpeedClass(s) == IF s = 0 THEN 0 ELSE IF s <= SpeedMoving THEN 1 ELSE 2

\* friction ** dt_multiplier applied to a speed
RECURSIVE Friction(_, _)
Friction(s, dt) == IF dt = 0 THEN s ELSE Friction((s * friction) \div 1000, dt - 1)

\* apply_physics on the speed of a ball that is not dragged
Decay(s, dt) ==
    LET slowed == Friction(s, dt)
    IN IF slowed < SpeedStop THEN 0 ELSE slowed

\* the balls that can be set rolling by a hit (the cue ball is struck)
RollTargets == {1, 8}

\* main.py:239-241 on the speeds: nothing is hit, or a rolling ball meets a
\* cushion head-on (functions.py:156-167), or it meets a ball at rest head-on
\* (functions.py:191-208: the impulse is (1 + bounce) / 2 of its speed)
RollCollisions(s, bs) ==
    LET live == Numbers(bs)
        rolling == {n \in live : s[n] > 0}
    IN {s}
       \cup {[s EXCEPT ![n] = (s[n] * CUSHION_BOUNCE) \div 100] : n \in rolling}
       \cup UNION {{[s EXCEPT ![n] = (s[n] * (100 - bounce_factor)) \div 200,
                              ![t] = (s[n] * (100 + bounce_factor)) \div 200] :
                       t \in {x \in (live \cap RollTargets) \ {n} : s[x] = 0}} :
                   n \in rolling}

WithSpeeds(bs, s) ==
    [i \in DOMAIN bs |-> [bs[i] EXCEPT !.vel = SpeedClass(s[bs[i].number])]]

\* main.py:148-236 with the speeds in numbers: physics (at most one rolling
\* ball reaches a pocket), pockets and rules.  The outcomes are pairs of the
\* match state after the rules and the speeds the collisions start from.
RollRules ==
    {LET slowed == [n \in 0..15 |-> Decay(roll[n], dt)]
         moved == [i \in DOMAIN balls |->
                      [balls[i] EXCEPT
                          !.vel = SpeedClass(slowed[balls[i].number]),
                          !.at = IF balls[i].number \in sink
                                 THEN "pocket" ELSE "table"]]
     IN <<FrameRules(moved), [n \in 0..15 |-> IF n \in sink THEN 0 ELSE slowed[n]]>> :
        dt \in 1..MaxDt,
        sink \in {{}} \cup {{n} : n \in {x \in Numbers(balls) : roll[x] > 0}}}

\* main.py:148-241 with the speeds in numbers: rules, then collisions
RollFrame ==
    /\ game_started
    /\ \E r \in RollRules :
        /\ Len(r[1].sunk) <= MatchEnv.buffer
        /\ \E s \in RollCollisions(r[2], r[1].balls) :
              /\ roll' = s
              /\ balls' = WithSpeeds(r[1].balls, s)
        /\ sunk_this_frame' = r[1].frame
        /\ player_ball_types' = r[1].types
        /\ player_scores' = r[1].scores
        /\ current_player_idx' = r[1].cur
        /\ game_over' = r[1].over
        /\ winner_name' = r[1].winner
        /\ shot_taken' = r[1].shot
        /\ balls_sunk_in_shot' = r[1].sunk
        /\ ticks_since_over' = IF r[1].over
                               THEN Min2(r[1].since + TickMs, DisplayDelay + 1)
                               ELSE 0
    /\ UNCHANGED <<game_started, charging_shot, frame_error, contact, pot, nb>>

\* main.py:117-143: left button released, no ball being dragged; the strike
\* gives the cue ball its speed
RollButtonUp ==
    /\ game_started /\ ~game_over
    /\ IF ~are_balls_moving(balls) /\ HasCueBall(balls) /\ charging_shot
       THEN /\ \E power \in 0..MaxPower :
                 /\ roll' = [roll EXCEPT ![0] = power * SpeedStop]
                 /\ balls' = WithSpeeds(balls, roll')
            /\ charging_shot' = FALSE
            /\ shot_taken' = TRUE
            /\ balls_sunk_in_shot' = <<>>
       ELSE UNCHANGED <<balls, roll, charging_shot, shot_taken, balls_sunk_in_shot>>
    /\ UNCHANGED <<player_ball_types, player_scores, current_player_idx,
                   game_started, game_over, ticks_since_over, winner_name,
                   sunk_this_frame, frame_error, contact, pot, nb>>

RollNext ==
    \/ StartMatch
    \/ MouseButtonDown(MatchEnv)
    \/ RollButtonUp
    \/ RollFrame

\* the loop runs a frame per iteration (main.py:73-75)
SpecRoll == Init /\ [][RollNext]_vars /\ WF_vars(RollFrame)

(* ---------------- functions.py: the pocket detector on positions ---------------- *)

POCKET_RADIUS == 35

\* get_pocket_positions for the table of main.py
get_pocket_positions ==
    <<<<TABLE_X + CUSHION_SIZE, TABLE_Y + CUSHION_SIZE>>,
      <<TABLE_X + TABLE_W \div 2, TABLE_Y + CUSHION_SIZE - 5>>,
      <<TABLE_X + TABLE_W - CUSHION_SIZE, TABLE_Y + CUSHION_SIZE>>,
      <<TABLE_X + CUSHION_SIZE, TABLE_Y + TABLE_H - CUSHION_SIZE>>,
      <<TABLE_X + TABLE_W \div 2, TABLE_Y + TABLE_H - CUSHION_SIZE + 5>>,
      <<TABLE_X + TABLE_W - CUSHION_SIZE, TABLE_Y + TABLE_H - CUSHION_SIZE>>>>

\* dist < POCKET_RADIUS, on the squares
InPocket(ball, pocket) ==
    (ball.x - pocket[1]) * (ball.x - pocket[1])
    + (ball.y - pocket[2]) * (ball.y - pocket[2]) < POCKET_RADIUS * POCKET_RADIUS

\* functions.py:298-304, the loop over the pockets from pocket k on: the
\* entries appended for one ball (the loop breaks at the first pocket in range)
RECURSIVE ScanPockets(_, _)
ScanPockets(ball, k) ==
    IF k > Len(get_pocket_positions) THEN <<>>
    ELSE IF InPocket(ball, get_pocket_positions[k])
    THEN <<[type |-> ball.type, number |-> ball.number]>>
    ELSE ScanPockets(ball, k + 1)

\* functions.py:297-304, the loop over the balls from index i on: the indices
\* put in balls_to_remove and the entries of sunk_data
RECURSIVE ScanBalls(_, _)
ScanBalls(bs, i) ==
    IF i > Len(bs) THEN [remove |-> <<>>, sunk_data |-> <<>>]
    ELSE LET found == ScanPockets(bs[i], 1)
             tail == ScanBalls(bs, i + 1)
         IN [remove |-> (IF found = <<>> THEN <<>> ELSE <<i>>) \o tail.remove,
             sunk_data |-> found \o tail.sunk_data]

\* list.remove: the list without its first element equal to b
RECURSIVE RemoveFirst(_, _)
RemoveFirst(seq, b) ==
    IF seq = <<>> THEN <<>>
    ELSE IF Head(seq) = b THEN Tail(seq)
    ELSE <<Head(seq)>> \o RemoveFirst(Tail(seq), b)

\* functions.py:306-312, the loop over balls_to_remove (given as the balls
\* themselves); bs is the live list
RECURSIVE RemoveSunk(_, _)
RemoveSunk(bs, sunk) ==
    IF sunk = <<>> THEN bs
    ELSE LET ball == Head(sunk)
         IN IF ball.number = 0
            THEN RemoveSunk([i \in DOMAIN bs |->
                                IF bs[i] = ball
                                THEN [ball EXCEPT !.x = TABLE_X + TABLE_W \div 4,
                                                  !.y = TABLE_Y + TABLE_H \div 2,
                                                  !.vel_x = 0, !.vel_y = 0]
                                ELSE bs[i]],
                            Tail(sunk))
            ELSE RemoveSunk(RemoveFirst(bs, ball), Tail(sunk))

\* a detector that removes a captured cue ball like any other ball
check_pockets_xy_removes_cue(bs) ==
    [balls |-> SelectSeq(bs, LAMBDA b : ScanPockets(b, 1) = <<>>),
     sunk_data |-> ScanBalls(bs, 1).sunk_data]

\* check_pockets on positions: the list after the call and the returned data
check_pockets_xy(bs) ==
    LET scan == ScanBalls(bs, 1)
    IN [balls |-> RemoveSunk(bs, [k \in DOMAIN scan.remove |-> bs[scan.remove[k]]]),
        sunk_data |-> scan.sunk_data]

\* the points a ball is placed at: the centre of the first pocket, a point
\* inside its capture radius, a point at the capture radius exactly, the
\* middle of the table, and a point inside the radius of the second pocket
PocketPoints ==
    LET p == get_pocket_positions
    IN {<<p[1][1], p[1][2]>>, <<p[1][1] + 20, p[1][2] + 28>>,
        <<p[1][1] + 21, p[1][2] + 28>>, <<mid_x, mid_y>>,
        <<p[2][1], p[2][2] + 34>>}

\* the numbers of the balls placed; the live list is in rack order
PocketNumbers == <<0, 1, 8, 9>>

PocketBalls(n) ==
    {[number |-> n, type |-> BallType(n), x |-> q[1], y |-> q[2],
      vel_x |-> v, vel_y |-> 0] : q \in PocketPoints, v \in {0, 1}}

\* the lists of balls of the numbers PocketNumbers[k..], each ball absent or
\* at one of the points
RECURSIVE PocketLists(_)
PocketLists(k) ==
    IF k > Len(PocketNumbers) THEN {<<>>}
    ELSE LET rest == PocketLists(k + 1)
         IN rest \cup {<<b>> \o l : b \in PocketBalls(PocketNumbers[k]), l \in rest}

InitPockets ==
    /\ balls = setup_rack
    /\ player_ball_types = NoTypes
    /\ player_scores = NoScores
    /\ current_player_idx = 0
    /\ game_started = TRUE
    /\ game_over = FALSE
    /\ ticks_since_over = 0
    /\ winner_name = ""
    /\ shot_taken = FALSE
    /\ charging_shot = FALSE
    /\ balls_sunk_in_shot = <<>>
    /\ sunk_this_frame = <<>>
    /\ frame_error = FALSE
    /\ contact = NoContact
    /\ roll = NoRoll
    /\ nb = NoNb
    /\ \E bs \in PocketLists(1) :
          pot = [before |-> bs, after |-> bs, sunk_data |-> <<>>, done |-> FALSE]

\* main.py:156, one call of check_pockets
CheckPockets ==
    /\ ~pot.done
    /\ LET out == check_pockets_xy(pot.before)
       IN pot' = [pot EXCEPT !.after = out.balls, !.sunk_data = out.sunk_data,
                             !.done = TRUE]
    /\ UNCHANGED <<balls, player_ball_types, player_scores, current_player_idx,
                   game_started, game_over, ticks_since_over, winner_name,
                   shot_taken, charging_shot, balls_sunk_in_shot,
                   sunk_this_frame, frame_error, contact, roll, nb>>

PocketsNext == CheckPockets

SpecPockets == InitPockets /\ [][PocketsNext]_vars

(* ---------------- functions.py: the neighbour lists ---------------- *)

\* the ball objects are named by their addresses (what id() returns); one
\* address more than balls, for the object a re-spawn creates while the
\* captured one is still referenced
Addresses == 1..(MaxBalls + 1)

\* a ball object as far as the neighbour finder reads and writes it
Blank == [x |-> 0, y |-> 0, radius |-> 0, nearby_balls |-> <<>>]

\* create_ball at the point q
Placed(q) == [x |-> q[1], y |-> q[2], radius |-> BALL_RADIUS, nearby_balls |-> <<>>]

\* main.py:57 and functions.py:309, where the cue ball is created and put back
Kitchen == <<TABLE_X + TABLE_W \div 4, mid_y>>

\* main.py:187, where a captured ball of the opponent is put back
Middle == <<mid_x, mid_y>>

\* where the i-th object ball of the rack is: each two radii from the next
RackPoint(i) == <<mid_x + BALL_RADIUS * (2 * i - 1), mid_y>>

\* the points a ball is at when the neighbours are computed: the cue ball's
\* point, the point of a re-spawn, and the points of the rack.  Two balls are
\* 0, 1, 2 or 3 radii apart, or further
NbPoints == {Kitchen, Middle} \cup {RackPoint(i) : i \in 1..(MaxBalls - 1)}

\* a point a ball is captured at: the centre of the second pocket
PocketPoint == get_pocket_positions[2]

Live(live) == {live[i] : i \in DOMAIN live}

Max2(a, b) == IF a > b THEN a ELSE b

\* functions.py:85-91, the test of one pair
WithinReach(b1, b2) ==
    LET dx == b2.x - b1.x
        dy == b2.y - b1.y
        distance_sq == dx * dx + dy * dy
        sum_radii == b1.radius + b2.radius
        max_distance == sum_radii + Max2(b1.radius, b2.radius)
    IN distance_sq < max_distance * max_distance

\* functions.py:81-93, the double loop from the pair (i, j) on
RECURSIVE NeighborLoop(_, _, _, _)
NeighborLoop(live, obj, i, j) ==
    IF i > Len(live) THEN obj
    ELSE IF j > Len(live) THEN NeighborLoop(live, obj, i + 1, i + 2)
    ELSE LET b1 == live[i]
             b2 == live[j]
         IN NeighborLoop(live,
                         IF WithinReach(obj[b1], obj[b2])
                         THEN [obj EXCEPT ![b1].nearby_balls = Append(@, b2),
                                          ![b2].nearby_balls = Append(@, b1)]
                         ELSE obj,
                         i, j + 1)

\* a neighbour finder that appends to the lists of the frame before
calculate_neighbors_keeps_lists(live, obj) == NeighborLoop(live, obj, 1, 2)

\* functions.py:76-93
calculate_neighbors(live, obj) ==
    NeighborLoop(live,
                 [a \in DOMAIN obj |->
                     IF a \in Live(live) THEN [obj[a] EXCEPT !.nearby_balls = <<>>]
                     ELSE obj[a]],
                 1, 2)

\* functions.py:214-216, the calls of _collide_with_ball made in the turn of
\* one ball, from the k-th entry of its list on
RECURSIVE NeighborCalls(_, _, _)
NeighborCalls(ball, list, k) ==
    IF k > Len(list) THEN <<>>
    ELSE (IF ball < list[k] THEN <<<<ball, list[k]>>>> ELSE <<>>)
         \o NeighborCalls(ball, list, k + 1)

\* functions.py:210-216, the calls of _collide_with_ball of one sub-step, from
\* the i-th ball of the list on
RECURSIVE CollisionCalls(_, _, _)
CollisionCalls(live, obj, i) ==
    IF i > Len(live) THEN <<>>
    ELSE NeighborCalls(live[i], obj[live[i]].nearby_balls, 1)
         \o CollisionCalls(live, obj, i + 1)

\* the rack as far as the neighbour finder is concerned: the cue ball first,
\* the object balls two radii apart, every list empty (functions.py:73)
InitNeighbors ==
    /\ balls = setup_rack
    /\ player_ball_types = NoTypes
    /\ player_scores = NoScores
    /\ current_player_idx = 0
    /\ game_started = TRUE
    /\ game_over = FALSE
    /\ ticks_since_over = 0
    /\ winner_name = ""
    /\ shot_taken = FALSE
    /\ charging_shot = FALSE
    /\ balls_sunk_in_shot = <<>>
    /\ sunk_this_frame = <<>>
    /\ frame_error = FALSE
    /\ contact = NoContact
    /\ roll = NoRoll
    /\ pot = NoPot
    /\ \E live \in [1..MaxBalls -> Addresses] :
          /\ \A i, j \in 1..MaxBalls : live[i] = live[j] => i = j
          /\ nb = [live |-> live,
                   obj |-> [a \in Addresses |->
                              IF a = live[1] THEN Placed(Kitchen)
                              ELSE IF \E i \in 2..MaxBalls : live[i] = a
                              THEN Placed(RackPoint((CHOOSE i \in 2..MaxBalls :
                                                        live[i] = a) - 1))
                              ELSE Blank],
                   calls |-> <<>>, rebuilt |-> FALSE, removed |-> 0, stale |-> {}]

\* One frame as far as the neighbour lists are concerned.  main.py:148-153:
\* a ball moves (move); main.py:156: a ball that moved into the pocket is
\* captured (the cue ball is put back, another ball leaves the list);
\* main.py:183-188: the captured ball is put back as a new object at the end
\* of the list (fresh); main.py:239: the lists are rebuilt; main.py:240-241:
\* the sub-steps call the resolver.  An object that left the list is
\* referenced by nothing after the rebuild.
NeighborFrame ==
    /\ nb.live # <<>>
    /\ \E move \in {<<0, Middle>>} \cup (Live(nb.live) \X (NbPoints \cup {PocketPoint})) :
          LET cue == nb.live[1]
              sunk == IF move[2] = PocketPoint THEN move[1] ELSE 0
          IN \E fresh \in {0} \cup (IF sunk \in {0, cue} THEN {}
                                    ELSE Addresses \ Live(nb.live)) :
                LET moved == IF move[1] = 0 THEN nb.obj
                             ELSE [nb.obj EXCEPT ![move[1]].x = move[2][1],
                                                 ![move[1]].y = move[2][2]]
                    potted == IF sunk = cue
                              THEN [moved EXCEPT ![cue].x = Kitchen[1],
                                                 ![cue].y = Kitchen[2]]
                              ELSE moved
                    left == IF sunk = cue THEN nb.live
                            ELSE SelectSeq(nb.live, LAMBDA a : a # sunk)
                    live == IF fresh = 0 THEN left ELSE Append(left, fresh)
                    placed == IF fresh = 0 THEN potted
                              ELSE [potted EXCEPT ![fresh] = Placed(Middle)]
                    found == calculate_neighbors(live, placed)
                IN nb' = [live |-> live,
                          obj |-> [a \in Addresses |->
                                     IF a \in Live(live) THEN found[a] ELSE Blank],
                          calls |-> CollisionCalls(live, found, 1),
                          rebuilt |-> TRUE,
                          removed |-> IF sunk = cue THEN 0 ELSE sunk,
                          stale |-> IF sunk \in {0, cue} THEN {}
                                    ELSE {a \in Live(live) :
                                            \E k \in DOMAIN nb.obj[a].nearby_balls :
                                               nb.obj[a].nearby_balls[k] = sunk}]
    /\ UNCHANGED <<balls, player_ball_types, player_scores, current_player_idx,
                   game_started, game_over, ticks_since_over, winner_name,
                   shot_taken, charging_shot, balls_sunk_in_shot,
                   sunk_this_frame, frame_error, contact, roll, pot>>

NeighborsNext == NeighborFrame

SpecNeighbors == InitNeighbors /\ [][NeighborsNext]_vars

TypeOK ==
    /\ current_player_idx \in 0..1
    /\ \A p \in 0..1 : player_ball_types[p] \in {"none", "solid", "stripe"}
    /\ \A p \in 0..1 : player_scores[p] \in Nat
    /\ winner_name \in {"", "P1", "P2"}
    /\ ticks_since_over \in Nat
    /\ frame_error \in BOOLEAN
    /\ contact.substep \in 0..SubSteps
    /\ \A n \in 0..15 : roll[n] \in Nat
    /\ pot.done \in BOOLEAN
    /\ nb.rebuilt \in BOOLEAN

(* ---------------- claims ---------------- *)

CueBalls == {i \in DOMAIN balls : balls[i].number = 0}

InFrame(t) == \E i \in DOMAIN sunk_this_frame : sunk_this_frame[i].type = t

\* C1: cue ball persistence -- in every reachable state (so at the start and
\* at the end of every frame, after any strike, drag, capture, respawn or
\* match reset) the live set holds exactly one ball numbered 0, and it is the
\* first ball of the list.
C1_CueBallPersistence ==
    /\ Cardinality(CueBalls) = 1
    /\ HasCueBall(balls)

\* C1 witness: the cue ball was captured in the last frame of a running
\* match and is on the table, at rest
C1_CueCaptured ==
    /\ game_started /\ ~game_over
    /\ InFrame("cue")
    /\ Len(balls) < Len(setup_rack)
    /\ balls[1].number = 0 /\ balls[1].vel = 0 /\ balls[1].at = "table"

\* C2: ball numbers are unique in the live set in every reachable state.
C2_UniqueNumbers ==
    \A i, j \in DOMAIN balls : balls[i].number = balls[j].number => i = j

\* C2 witness: a frame with several captures, one of them an object ball
\* that was respawned (it is the last ball of the list again)
C2_Respawned ==
    /\ game_started
    /\ Len(sunk_this_frame) >= 2
    /\ \E i \in DOMAIN sunk_this_frame :
          /\ sunk_this_frame[i].type \in {"solid", "stripe"}
          /\ sunk_this_frame[i].number # rack_numbers[Len(rack_numbers)]
          /\ balls[Len(balls)].number = sunk_this_frame[i].number

\* The captures of a shot, as its resolution judges them: an entry of kind t
CapturedOf(buf, t) == \E i \in DOMAIN buf : buf[i].type = t

\* the kind of the player p, none never being the kind of a captured ball
KindCaptured(buf, types, p) == types[p] # "none" /\ CapturedOf(buf, types[p])

\* C3: turn transfer at shot resolution -- in every step that evaluates a
\* pending shot without ending the game, the turn index flips to the opponent
\* if and only if the evaluated captures hold the cue ball or a ball of the
\* opponent's kind (foul), or hold no ball of the shooter's kind; otherwise
\* the turn index is unchanged.
C3_TurnTransfer ==
    [][(game_started /\ shot_taken /\ ~shot_taken' /\ ~game_over /\ ~game_over')
        => LET buf == balls_sunk_in_shot \o sunk_this_frame'
               cur == current_player_idx
               foul == \/ CapturedOf(buf, "cue")
                       \/ KindCaptured(buf, player_ball_types', 1 - cur)
               own == KindCaptured(buf, player_ball_types', cur)
           IN /\ (foul \/ ~own) => current_player_idx' = 1 - cur
              /\ ~(foul \/ ~own) => current_player_idx' = cur]_vars

\* C3 witness: a shot was resolved in the frame of its only capture, a ball
\* of the shooter's kind, and the shooter is still the current player
C3_TurnKept ==
    /\ game_started /\ ~game_over /\ ~shot_taken
    /\ balls_sunk_in_shot = <<>>
    /\ Len(sunk_this_frame) = 1
    /\ sunk_this_frame[1].type = player_ball_types[current_player_idx]
    /\ sunk_this_frame[1].number \notin Numbers(balls)
    /\ player_scores[current_player_idx] = 1
    /\ player_scores[1 - current_player_idx] = 0

\* the number of captures of the kind of player p among buf
NumKindCaptured(buf, types, p) ==
    IF types[p] = "none" THEN 0
    ELSE Cardinality({i \in DOMAIN buf : buf[i].type = types[p]})

\* C4: 8-ball win/loss at shot resolution -- in every step that evaluates a
\* pending shot whose capture buffer holds the 8-ball, the game is over and
\* the shooter is the winner if and only if the shooter has an assigned kind,
\* the shooter's score minus the own-kind captures of the shot is at least 7,
\* the shot holds no own-kind capture and no foul (cue ball or opponent-kind
\* ball); in every other case the opponent is the winner.
C4_EightBallOutcome ==
    [][(/\ game_started /\ shot_taken /\ ~shot_taken' /\ ~game_over
        /\ CapturedOf(balls_sunk_in_shot \o sunk_this_frame', "8ball"))
        => LET buf == balls_sunk_in_shot \o sunk_this_frame'
               cur == current_player_idx
               types == player_ball_types'
               foul == \/ CapturedOf(buf, "cue")
                       \/ KindCaptured(buf, types, 1 - cur)
               own == NumKindCaptured(buf, types, cur)
               clean == /\ types[cur] # "none"
                        /\ player_scores'[cur] - own >= 7
                        /\ own = 0
                        /\ ~foul
           IN /\ game_over'
              /\ clean => winner_name' = PlayerNames[cur]
              /\ ~clean => winner_name' = PlayerNames[1 - cur]]_vars

\* C4 witness: the game is over by the resolution of a shot that captured
\* the 8-ball alone, and the winner is the shooter, who holds 7 points
C4_CleanWin ==
    /\ game_over /\ ~shot_taken
    /\ sunk_this_frame = <<[type |-> "8ball", number |-> 8]>>
    /\ balls_sunk_in_shot = <<>>
    /\ player_scores[current_player_idx] = 7
    /\ OfType(balls, player_ball_types[current_player_idx]) = {}
    /\ winner_name = PlayerNames[current_player_idx]

\* C5: every capture of the 8-ball ends the game -- in every reachable state
\* of a started match in which the 8-ball is absent from the live set, the
\* game is over or a shot is pending; no state has the 8-ball gone, no shot
\* pending and the game not over.
C5_EightBallEndsGame ==
    (game_started /\ 8 \notin Numbers(balls)) => (game_over \/ shot_taken)

\* the 8-ball leaves the live set in this step
EightBallCaptured == 8 \in Numbers(balls) /\ 8 \notin Numbers(balls')

\* the position of the 8-ball among the captures of a frame (0: none)
EightBallAt(frame) ==
    IF \E i \in DOMAIN frame : frame[i].number = 8
    THEN CHOOSE i \in DOMAIN frame : frame[i].number = 8
    ELSE 0

\* C6: capturing the 8-ball while the current player has no assigned kind is
\* an instant loss -- in every step that captures the 8-ball while the
\* current player has no kind (none assigned before the step, nor by a
\* capture that precedes the 8-ball in the same frame), game over is set in
\* that step, the winner is the other player, and no kind is assigned and no
\* point is scored.
C6_InstantLoss ==
    [][(/\ game_started /\ EightBallCaptured
        /\ player_ball_types[current_player_idx] = "none"
        /\ \A i \in 1..(EightBallAt(sunk_this_frame') - 1) :
              sunk_this_frame'[i].type \notin {"solid", "stripe"})
        => /\ game_over'
           /\ winner_name' = PlayerNames[1 - current_player_idx]
           /\ player_ball_types' = player_ball_types
           /\ player_scores' = player_scores]_vars

\* C6 witness: the 8-ball was captured in the last frame on an open table
\* while balls were moving; the game is over, the shot is still pending
C6_LostOnOpenTable ==
    /\ game_started /\ game_over /\ shot_taken
    /\ EightBallAt(sunk_this_frame) > 0
    /\ 8 \notin Numbers(balls)
    /\ are_balls_moving(balls)
    /\ player_ball_types = NoTypes /\ player_scores = NoScores
    /\ winner_name = PlayerNames[1 - current_player_idx]

\* a frame with captures: the step replaces the list of the captures of the
\* frame by a non-empty one
CaptureStep == sunk_this_frame' # <<>> /\ sunk_this_frame' # sunk_this_frame

\* a step that evaluates a pending shot
ResolutionStep == game_started /\ shot_taken /\ ~shot_taken' /\ ~game_over

\* the position of the first object ball among the captures of a frame (0: none)
FirstObjectAt(frame) ==
    LET objects == {i \in DOMAIN frame : frame[i].type # "cue"}
    IN IF objects = {} THEN 0
       ELSE CHOOSE i \in objects : \A j \in objects : i <= j

\* C7: first pot on an open table -- in every frame whose first captured
\* object ball is a solid or a stripe while the current player has no kind,
\* the current player is assigned that kind, the opponent the complementary
\* kind, and the current player's score grows by one per captured ball of
\* that kind (by exactly one when it is the only one), the opponent's by
\* nothing; and when a shot is resolved whose only capture is that ball (the
\* only point of the match), the turn stays with the shooter.
C7_FirstPot ==
    [][/\ (/\ game_started /\ CaptureStep
           /\ player_ball_types[current_player_idx] = "none"
           /\ FirstObjectAt(sunk_this_frame') > 0
           /\ sunk_this_frame'[FirstObjectAt(sunk_this_frame')].type
                 \in {"solid", "stripe"})
          => LET cur == current_player_idx
                 kind == sunk_this_frame'[FirstObjectAt(sunk_this_frame')].type
             IN /\ player_ball_types'[cur] = kind
                /\ player_ball_types'[1 - cur] = Complement(kind)
                /\ player_scores'[cur] = player_scores[cur] +
                      Cardinality({i \in DOMAIN sunk_this_frame' :
                                      sunk_this_frame'[i].type = kind})
                /\ player_scores'[1 - cur] = player_scores[1 - cur]
       /\ (/\ ResolutionStep
           /\ Len(balls_sunk_in_shot \o sunk_this_frame') = 1
           /\ (balls_sunk_in_shot \o sunk_this_frame')[1].type
                 = player_ball_types'[current_player_idx]
           /\ player_scores'[current_player_idx] = 1
           /\ player_scores'[1 - current_player_idx] = 0)
          => /\ ~game_over'
             /\ current_player_idx' = current_player_idx]_vars

\* C7 witness: player 0 was resolved to keep the turn after potting ball 1
\* alone on an open table: solid against stripe, one point against none
C7_FirstPotKeepsTurn ==
    /\ game_started /\ ~game_over /\ ~shot_taken
    /\ balls_sunk_in_shot = <<>>
    /\ sunk_this_frame = <<[type |-> "solid", number |-> 1]>>
    /\ 1 \notin Numbers(balls)
    /\ current_player_idx = 0
    /\ player_ball_types = [p \in 0..1 |-> IF p = 0 THEN "solid" ELSE "stripe"]
    /\ player_scores = [p \in 0..1 |-> IF p = 0 THEN 1 ELSE 0]

\* the captures of a frame of the kind of player p
KindEntries(frame, types, p) ==
    {i \in DOMAIN frame : types[p] # "none" /\ frame[i].type = types[p]}

\* the live ball numbered n lies on the table
OnTable(bs, n) == \E i \in DOMAIN bs : bs[i].number = n /\ bs[i].at = "table"

\* the effect of a frame that captures, for a current player with a kind: the
\* captured balls of the opponent's kind are back on the table, the
\* opponent's score is unchanged and the current player's score grows by the
\* captured balls of the own kind only
OpponentBallsRespawned ==
    (/\ game_started /\ CaptureStep
     /\ player_ball_types[current_player_idx] # "none")
    => LET cur == current_player_idx
           frame == sunk_this_frame'
       IN /\ \A i \in KindEntries(frame, player_ball_types, 1 - cur) :
                OnTable(balls', frame[i].number)
          /\ player_scores'[1 - cur] = player_scores[1 - cur]
          /\ player_scores'[cur] = player_scores[cur] +
                Cardinality(KindEntries(frame, player_ball_types, cur))

C10_ScoreMatchesLiveSet ==
    /\ \A p \in 0..1 : player_scores[p] <= 7
    /\ (/\ game_started /\ ~game_over
        /\ \A p \in 0..1 : player_ball_types[p] # "none")
       => \A p \in 0..1 :
             player_scores[p] =
                7 - Cardinality(OfType(balls, player_ball_types[p]))

\* C10 witness: the match goes on, the current player holds 7 points and no
\* ball of that player's kind is live, while the 8-ball still is
C10_AllOwnBallsCleared ==
    /\ game_started /\ ~game_over
    /\ player_ball_types[current_player_idx] # "none"
    /\ player_scores[current_player_idx] = 7
    /\ OfType(balls, player_ball_types[current_player_idx]) = {}
    /\ 8 \in Numbers(balls)

\* C11: match reset -- every step that leaves game over is taken more than
\* 4000 ms after game over was set, and right after it both scores are 0,
\* both kinds are unassigned, the capture buffer is empty, the shot-taken,
\* charging and game-over flags are false, and the live set is a fresh rack
\* of exactly the 16 balls numbered 0..15, none dragged, all at rest.
C11_MatchReset ==
    [][(game_over /\ ~game_over')
        => /\ ticks_since_over > DisplayDelay
           /\ player_scores' = NoScores
           /\ player_ball_types' = NoTypes
           /\ balls_sunk_in_shot' = <<>>
           /\ ~shot_taken' /\ ~charging_shot'
           /\ Len(balls') = 16
           /\ Numbers(balls') = 0..15
           /\ \A i \in DOMAIN balls' :
                 /\ balls'[i].vel = 0 /\ ~balls'[i].dragging
                 /\ balls'[i].at = "table"]_vars

\* C11 witness: the match was reset after a game that had a winner: a fresh
\* rack, nothing assigned, nothing scored, nothing pending
C11_FreshRackAfterGame ==
    /\ game_started /\ ~game_over
    /\ winner_name # ""
    /\ balls = setup_rack
    /\ player_ball_types = NoTypes /\ player_scores = NoScores
    /\ ~shot_taken /\ ~charging_shot /\ balls_sunk_in_shot = <<>>

\* C12: game over auto-transitions -- in every state in which the game is
\* over and the display delay has elapsed, a frame of the main loop, with no
\* event, resets the match (so frames alone bring every game over to a fresh
\* rack).
C12_FramesResetMatch ==
    (game_started /\ game_over /\ ticks_since_over > DisplayDelay)
    => ENABLED (Frame(PlayEnv) /\ ~game_over')

\* C13: nothing is fatal except quit -- once a match has started every frame
\* runs its step sequence to completion; no frame ends in an error state.
C13_NoFrameError == ~frame_error

SumRadii == 2 * BALL_RADIUS * Grid

AtRest(b) == b.vel_x = 0 /\ b.vel_y = 0

\* far enough from every cushion that a separation cannot reach the inset's
\* edge
ClearOfCushions(b) ==
    /\ b.x - InsetLeft >= SumRadii /\ InsetRight - b.x >= SumRadii
    /\ b.y - InsetTop >= SumRadii /\ InsetBottom - b.y >= SumRadii

OverlapAtRest ==
    /\ contact.start # <<>>
    /\ DistanceSq(contact.start[1], contact.start[2]) < SumRadii * SumRadii
    /\ AtRest(contact.start[1]) /\ AtRest(contact.start[2])
    /\ ClearOfCushions(contact.start[1]) /\ ClearOfCushions(contact.start[2])

\* C14: two balls that overlap at rest in the open table, at any centre
\* distance below the summed radii (coincident centres included), are exactly
\* the summed radii apart after the 8 sub-steps of the frame, and still at rest.
C14_NonPenetrationConvergence ==
    (OverlapAtRest /\ contact.substep = SubSteps) =>
        /\ DistanceSq(contact.balls[1], contact.balls[2]) = SumRadii * SumRadii
        /\ AtRest(contact.balls[1]) /\ AtRest(contact.balls[2])

InsideInset(b) ==
    /\ InsetLeft <= b.x /\ b.x <= InsetRight
    /\ InsetTop <= b.y /\ b.y <= InsetBottom

\* C15: at the end of the frame's collision resolution (all 8 sub-steps of
\* cushion and ball-ball resolution) every ball lies within the playable
\* inset [left, right] x [top, bottom].
C15_CushionContainment ==
    (contact.balls # <<>> /\ contact.substep = SubSteps) =>
        InsideInset(contact.balls[1]) /\ InsideInset(contact.balls[2])

\* the velocity of b along the normal n and across it, both times n.den
Along(b, n) == b.vel_x * n.x + b.vel_y * n.y
Across(b, n) == b.vel_x * n.y - b.vel_y * n.x

Overlapping(bs) == DistanceSq(bs[1], bs[2]) < SumRadii * SumRadii

SameVelocity(b, c) == b.vel_x = c.vel_x /\ b.vel_y = c.vel_y

\* a sub-step in which the pair is resolved and no cushion acts on either ball
PairResolution ==
    /\ contact.balls # <<>> /\ contact'.substep = contact.substep + 1
    /\ contact.near /\ Overlapping(contact.balls)
    /\ \A i \in 1..2 : InsideInset(contact.balls[i]) /\ InsideInset(contact'.balls[i])

\* C16: in every ball-ball resolution the sum of the two speeds along the
\* collision normal does not grow, the components across the normal are
\* unchanged, and balls that separate or are stationary along the normal keep
\* their velocities.
C16_EnergyBound ==
    [][PairResolution =>
        LET n == Normal(contact.balls[1], contact.balls[2])
            pre == contact.balls
            post == contact'.balls
        IN /\ Abs(Along(post[1], n)) + Abs(Along(post[2], n))
                  <= Abs(Along(pre[1], n)) + Abs(Along(pre[2], n))
           /\ \A i \in 1..2 : Across(post[i], n) = Across(pre[i], n)
           /\ Along(pre[1], n) - Along(pre[2], n) <= 0
                  => \A i \in 1..2 : SameVelocity(post[i], pre[i])]_vars

\* an approaching pair in the open table has exchanged an impulse
C16_ImpulseExchanged ==
    /\ contact.balls # <<>> /\ contact.substep = 1
    /\ Overlapping(contact.start)
    /\ \A i \in 1..2 : ClearOfCushions(contact.start[i])
    /\ LET n == Normal(contact.start[1], contact.start[2])
       IN Along(contact.start[1], n) - Along(contact.start[2], n) > 0
    /\ ~SameVelocity(contact.balls[1], contact.start[1])
    /\ ~SameVelocity(contact.balls[2], contact.start[2])

\* main.py:148-236: the match state at the end of the rules of a frame, before
\* the collisions, for every outcome of the physics
RuleOutcomes == {FrameRules(moved) : moved \in PhysicsUpdates(balls)}

\* C17: a pending shot is evaluated in the first frame in which no ball
\* exceeds the motion threshold (main.py:190) and the game is not over, and
\* in no other frame; after the evaluation the shot-taken flag is false and
\* the capture buffer is empty.  (after: the state at the end of the frame's
\* rules; after.balls carries the velocities main.py:190 tests.)
C17_ShotEvaluatedOnce ==
    (game_started /\ shot_taken /\ ~game_over) =>
        \A after \in RuleOutcomes :
            /\ (~are_balls_moving(after.balls) /\ ~after.over) => ~after.shot
            /\ ~after.shot => after.sunk = <<>> /\ ~are_balls_moving(after.balls)

\* a frame has captured a ball of the player's kind and evaluated the shot
C17_CapturesEvaluated ==
    /\ game_started /\ ~game_over /\ ~shot_taken
    /\ sunk_this_frame # <<>> /\ balls_sunk_in_shot = <<>>
    /\ player_scores # NoScores

\* C18: in every state of a started match with no shot pending and the game
\* not over, the capture buffer is empty (no ball is captured outside a shot).
C18_NoCaptureOutsideShot ==
    (game_started /\ ~shot_taken /\ ~game_over) => balls_sunk_in_shot = <<>>

\* a match start (main.py:100-110) or a match reset (main.py:89-98)
MatchStartStep == ~game_started \/ (game_over /\ ~game_over')

\* C19: the turn index changes only at a shot's resolution or at a match
\* start or reset; a frame that captures balls while the shot is still in
\* motion (kind assignment, scoring and respawn included) leaves it as it is.
C19_TurnChangesAtResolution ==
    [][current_player_idx' # current_player_idx
           => ResolutionStep \/ MatchStartStep]_vars

\* a ball captured while the shot is in motion has been scored at once, the
\* shot still pending
C19_ScoredInMotion ==
    /\ game_started /\ ~game_over /\ shot_taken
    /\ are_balls_moving(balls)
    /\ sunk_this_frame # <<>> /\ balls_sunk_in_shot # <<>>
    /\ player_scores[current_player_idx] > 0

NoneDragged(bs) == \A i \in DOMAIN bs : ~bs[i].dragging

\* a step that launches a charged strike: the charge is spent and the game-over
\* flag is as before (the match reset clears both)
StrikeStep == charging_shot /\ ~charging_shot' /\ game_over' = game_over

\* C20: a charged strike is launched only when no ball exceeds the motion
\* threshold, no ball is dragged (the release has dropped every ball) and the
\* game is not over; it starts its shot with an empty capture buffer and the
\* shot-taken flag set.
C20_StrikeFromRest ==
    [][StrikeStep =>
          /\ ~are_balls_moving(balls)
          /\ NoneDragged(balls')
          /\ ~game_over
          /\ balls_sunk_in_shot' = <<>>
          /\ shot_taken']_vars

\* a strike has just been launched after a frame that captured a ball: the
\* shot is pending, the buffer is empty and the cue ball is above the threshold
C20_StruckAfterCapture ==
    /\ game_started /\ ~game_over /\ shot_taken /\ ~charging_shot
    /\ sunk_this_frame # <<>> /\ balls_sunk_in_shot = <<>>
    /\ HasCueBall(balls) /\ balls[1].vel = 2
    /\ NoneDragged(balls)

RollAtRest == \A n \in Numbers(balls) : roll[n] = 0

\* C21: after any strike, with frames ticking and no ball dragged, every
\* ball's velocity reaches zero and the pending shot is evaluated (the
\* shot-taken flag cleared or game over set).
C21_ShotResolves ==
    shot_taken ~> (RollAtRest /\ (~shot_taken \/ game_over))


\* a ball within the capture radius of at least one pocket
Captured(b) ==
    \E k \in DOMAIN get_pocket_positions :
       LET dx == b.x - get_pocket_positions[k][1]
           dy == b.y - get_pocket_positions[k][2]
       IN dx * dx + dy * dy < POCKET_RADIUS * POCKET_RADIUS

\* a captured cue ball at the re-spawn point, at rest
Respawned(b) ==
    [b EXCEPT !.x = TABLE_X + TABLE_W \div 4, !.y = TABLE_Y + TABLE_H \div 2,
              !.vel_x = 0, !.vel_y = 0]

\* the list a call has to leave: the captured balls other than the cue ball
\* gone, a captured cue ball re-spawned, every other ball as it was
Survivors(bs) ==
    LET kept == SelectSeq(bs, LAMBDA b : b.number = 0 \/ ~Captured(b))
    IN [i \in DOMAIN kept |->
           IF Captured(kept[i]) THEN Respawned(kept[i]) ELSE kept[i]]

\* the data a call has to return: one entry per captured ball
Entries(bs) ==
    LET sunk == SelectSeq(bs, Captured)
    IN [i \in DOMAIN sunk |-> [type |-> sunk[i].type, number |-> sunk[i].number]]

\* C22: one call of the pocket detector returns exactly one (kind, number)
\* entry per ball within the capture radius of a pocket, removes exactly the
\* captured balls other than the cue ball, moves a captured cue ball to the
\* re-spawn point with zero velocity, and leaves every other ball's position
\* and velocity unchanged.
C22_PocketDetection ==
    pot.done => /\ pot.sunk_data = Entries(pot.before)
                /\ pot.after = Survivors(pot.before)

\* a call that captured a moving cue ball and an object ball, and left a
\* moving ball that lay exactly at the capture radius on the table
C22_CapturedAndKept ==
    /\ pot.done
    /\ \E i \in DOMAIN pot.before :
          /\ pot.before[i].number = 0
          /\ Captured(pot.before[i])
          /\ pot.before[i].vel_x # 0
    /\ \E i \in DOMAIN pot.before :
          pot.before[i].number # 0 /\ Captured(pot.before[i])
    /\ \E i \in DOMAIN pot.before, j \in DOMAIN pot.after :
          /\ ~Captured(pot.before[i])
          /\ pot.before[i].vel_x # 0
          /\ pot.before[i].x = get_pocket_positions[1][1] + 21
          /\ pot.after[j] = pot.before[i]


\* the neighbour list of the live ball a, as a set
NearbyOf(a) == {nb.obj[a].nearby_balls[k] : k \in DOMAIN nb.obj[a].nearby_balls}

\* the live balls a and b overlap: their centres are closer than the sum of
\* the radii
Overlap(a, b) ==
    LET dx == nb.obj[a].x - nb.obj[b].x
        dy == nb.obj[a].y - nb.obj[b].y
    IN dx * dx + dy * dy < (2 * BALL_RADIUS) * (2 * BALL_RADIUS)

\* the calls of the resolver on the pair of a and b in one sub-step
CallsOn(a, b) == {k \in DOMAIN nb.calls : nb.calls[k] \in {<<a, b>>, <<b, a>>}}

\* C23: after each frame's neighbour rebuild, b is in a's neighbour list iff
\* a is in b's, no ball is its own neighbour, every neighbour is a ball of the
\* live list, no list names a ball twice, and every pair of live balls whose
\* centres are closer than the sum of the radii is recorded and is handed to
\* the resolver exactly once in each sub-step of the frame.
C23_NeighbourSets ==
    nb.rebuilt =>
       \A a \in Live(nb.live) :
          /\ a \notin NearbyOf(a)
          /\ NearbyOf(a) \subseteq Live(nb.live)
          /\ Cardinality(NearbyOf(a)) = Len(nb.obj[a].nearby_balls)
          /\ \A b \in Live(nb.live) :
                /\ b \in NearbyOf(a) <=> a \in NearbyOf(b)
                /\ (a # b /\ Overlap(a, b)) =>
                      /\ b \in NearbyOf(a)
                      /\ Cardinality(CallsOn(a, b)) = 1

\* a frame in which a ball that was in a live ball's list was captured and
\* put back as a new object on top of a ball lying at the middle of the table
C23_CapturedNeighbour ==
    /\ nb.rebuilt
    /\ nb.removed # 0
    /\ nb.stale # {}
    /\ \E a \in nb.stale, b \in Live(nb.live) :
          /\ a # b
          /\ <<nb.obj[a].x, nb.obj[a].y>> = Middle
          /\ <<nb.obj[b].x, nb.obj[b].y>> = Middle
          /\ b = nb.live[Len(nb.live)]
          /\ b < a
          /\ nb.calls = <<<<b, a>>>>


\* the two kinds are both unassigned, or one is solid and the other stripe
KindsConsistent(types) ==
    \/ types = NoTypes
    \/ {types[0], types[1]} = {"solid", "stripe"}

\* C24: in every reachable state the two players' kinds are either both
\* unassigned or one is solid and the other stripe, and once assigned they do
\* not change until a match reset.
C24_KindsConsistentAndStable ==
    /\ [](KindsConsistent(player_ball_types))
    /\ [][player_ball_types # NoTypes
             => \/ player_ball_types' = player_ball_types
                \/ (game_over /\ ~game_over' /\ player_ball_types' = NoTypes)]_vars

\* kinds assigned in a match that follows a reset, with a ball of each kind
\* captured since
C24_KindsAfterReset ==
    /\ winner_name # ""
    /\ ~game_over
    /\ player_ball_types # NoTypes
    /\ \E i, j \in DOMAIN balls_sunk_in_shot :
          /\ balls_sunk_in_shot[i].type = "solid"
          /\ balls_sunk_in_shot[j].type = "stripe"


\* C25: GameOver is frozen -- every step taken while the game is over and
\* leaving it over (so from the frame that sets game over until the reset)
\* leaves the winner identity, both scores, both kind assignments and the
\* turn index as they are, whatever is captured and whatever input arrives.
C25_GameOverFrozen ==
    [][(game_over /\ game_over')
          => UNCHANGED <<winner_name, player_scores, player_ball_types,
                         current_player_idx>>]_vars

====
